---- MODULE Spec2Model ----
(***************************************************************************)
(* myna: talking to a smart identity card through a PC/SC reader.          *)
(*                                                                         *)
(* Two programs are modelled.                                              *)
(*   Spec     the Card Session of src/reader.go (package main): one        *)
(*            process run that builds a Reader, waits for and connects to  *)
(*            the card, transmits commands, reads binaries and finalizes.  *)
(*   SpecFair Spec with the loop of ReadBinary scheduled fairly.           *)
(*   SpecRead the paged binary read of src/reader.go on a connected        *)
(*            Reader, for every size up to MaxSize.                        *)
(*   SpecTx   Tx of src/reader.go applied to every response of up to       *)
(*            MaxRaw bytes.                                                *)
(*   SpecApi  the high-level API of src/libmyna/api.go: one public call    *)
(*            at a time, each opening and closing its own session.         *)
(***************************************************************************)
EXTENDS Integers, Sequences, FiniteSets, TLC

\* ------------------------------------------------------------------ bounds
\* Largest size argument given to ReadBinary (uint16 in the source).
MaxSize == 514
\* The log of READ BINARY commands stops growing at this length.
MaxReads == 4
\* Largest size argument given to ReadBinary within a whole process run.
MaxSessionSize == 2
\* Longest response of card.Transmit that Tx is applied to on its own.
MaxRaw == 4

\* ------------------------------------------------------- program constants
\* reader.go:71  for i := 0; i < 3; i++
MaxPolls == 3
\* reader.go:152 size - pos > 0xFF
ChunkThreshold == 255
\* uint16 arithmetic of pos and size (reader.go:144,147)
Uint16 == 65536
\* uint8 arithmetic of l (reader.go:145)
Uint8 == 256

VARIABLES
    \* ---- src/reader.go
    rpc,          \* position of the process
    ctx,          \* Reader.ctx: "none" | "established" | "released"
    card,         \* Reader.card: "nil" | "connected"
    i,            \* loop counter of WaitForCard
    polls,        \* GetStatusChange calls made by WaitForCard
    lastPoll,     \* what the last GetStatusChange reported
    connects,     \* number of ctx.Connect calls made
    viaCheck,     \* TRUE while WaitForCard runs on behalf of CheckCard
    outcome,      \* how the last operation ended
    connErr,      \* a status poll or an exclusive connect has errored
    transmitted,  \* some command was handed to the card
    sw,           \* status word last returned to the caller by a selection
    size,         \* ReadBinary: argument (the caller's input, fixed per run)
    pos,          \* ReadBinary: pos
    res,          \* ReadBinary: res
    reads,        \* ReadBinary: the READ BINARY commands issued: the bytes
                  \* sent, the bytes held when sent, whether it succeeded
    allExact,     \* every READ BINARY of this call was answered in full
    extra,        \* READ BINARY commands issued beyond the log, modulo 2
    \* ---- src/libmyna/api.go
    stack,        \* call stack of the API: frames [op, ix, rd, st]
    in,           \* the public call being made and its arguments
    open,         \* reader contexts established and not yet released
    nsess,        \* sessions opened since the public call began
    log,          \* commands transmitted since the public call began
    result,       \* what the public call returned ("none" until it returns)
    ret,          \* what the last nested call returned
    cert,         \* certificate held by the call: "nil" | "cert"
    data,         \* bytes returned by the last binary read: "nil" | "full"
    \* ---- src/reader.go, Tx on its own
    txRaw,        \* the bytes card.Transmit returned
    txErr,        \* whether card.Transmit returned an error
    txOut         \* what Tx returned: "none" or <<sw1, sw2, data>>

rvars == <<rpc, ctx, card, i, polls, lastPoll, connects, viaCheck, outcome, connErr,
           transmitted, sw, size, pos, res, reads, allExact, extra>>

avars == <<stack, in, open, nsess, log, result, ret, cert, data>>

tvars == <<txRaw, txErr, txOut>>

vars == <<rvars, avars, tvars>>

\* ------------------------------------------------------------ byte helpers
\* fmt.Sprintf("%02X", b): the two hex digits of a byte
Hex2(b) == <<(b \div 16) % 16, b % 16>>

\* ToBytes on one "%02X" field: the byte spelled by two hex digits
UnHex2(d) == d[1] * 16 + d[2]

\* ToBytes of the string built by Sprintf: every field back to a byte
ToBytes(fields) == [k \in 1..Len(fields) |-> UnHex2(fields[k])]

\* ------------------------------------------------------------- the card
\* Content of the selected elementary file at offset o.
FileByte(o) == (o * 7 + 3) % 256

\* The n bytes of the selected file that start at offset from.
FileBytes(from, n) == [k \in 1..n |-> FileByte(from + k - 1)]

\* ISO 7816 READ BINARY as the card decodes it: offset in P1,P2
CardOffset(cmd) == cmd[3] * 256 + cmd[4]

\* ISO 7816 READ BINARY as the card decodes it: Le = 0 asks for 256 bytes
CardLe(cmd) == IF cmd[5] = 0 THEN 256 ELSE cmd[5]

Responses == {"exact", "short", "empty", "status", "runt", "error"}

\* What the transport hands back for a READ BINARY command.
\* "error" is reported separately as the err of card.Transmit.
CardRead(cmd, resp) ==
    CASE resp = "exact"  -> FileBytes(CardOffset(cmd), CardLe(cmd))
                            \o <<144, 0>>
      [] resp = "short"  -> FileBytes(CardOffset(cmd), CardLe(cmd) - 1)
                            \o <<144, 0>>
      [] resp = "empty"  -> <<144, 0>>
      [] resp = "status" -> <<106, 130>>
      [] resp = "runt"   -> <<144>>
      [] OTHER           -> <<>>

\* What the transport hands back for a SELECT command.
CardSelect(resp) ==
    CASE resp = "exact"  -> <<144, 0>>
      [] resp = "status" -> <<106, 130>>
      [] resp = "runt"   -> <<144>>
      [] OTHER           -> <<>>

\* ------------------------------------------------------------------- Tx
\* Tx keeping one byte too many as data
TxLongData(raw, err) ==
    IF err THEN <<0, 0, <<>>>>
    ELSE LET l == Len(raw) IN
         IF l = 2 THEN <<raw[1], raw[2], <<>>>>
         ELSE IF l > 2 THEN <<raw[l - 1], raw[l], SubSeq(raw, 1, l - 1)>>
         ELSE <<0, 0, <<>>>>

\* Reader.Tx after card.Transmit returned (raw, err): <<sw1, sw2, data>>
Tx(raw, err) ==
    IF err THEN <<0, 0, <<>>>>
    ELSE LET l == Len(raw) IN
         IF l = 2 THEN <<raw[1], raw[2], <<>>>>
         ELSE IF l > 2 THEN <<raw[l - 1], raw[l], SubSeq(raw, 1, l - 2)>>
         ELSE <<0, 0, <<>>>>

\* ------------------------------------------------------------ ReadBinary
\* ChunkLen asking for 255 bytes, not 256, of a longer remainder
ChunkLenFF(sz, p) ==
    IF (sz - p) % Uint16 > ChunkThreshold THEN 255 ELSE ((sz - p) % Uint16) % Uint8

\* ChunkLen with the comparison off by one
ChunkLenGE(sz, p) ==
    IF (sz - p) % Uint16 >= ChunkThreshold THEN 0 ELSE ((sz - p) % Uint16) % Uint8

\* reader.go:152-156  the length byte of the next READ BINARY
ChunkLen(sz, p) ==
    IF (sz - p) % Uint16 > ChunkThreshold THEN 0 ELSE ((sz - p) % Uint16) % Uint8

\* OffsetHi without the shift
OffsetHiNoShift(p) == p % 256

\* reader.go:157-158  P1 of the next READ BINARY
OffsetHi(p) == (p \div 256) % 256

\* reader.go:157-158  P2 of the next READ BINARY
OffsetLo(p) == p % 256

\* reader.go:157-158  "00 B0 %02X %02X %02X", parsed again by ToBytes in Tx
ReadApdu(sz, p) ==
    ToBytes(<<Hex2(0), Hex2(176), Hex2(OffsetHi(p)), Hex2(OffsetLo(p)),
              Hex2(ChunkLen(sz, p))>>)

\* FailedRead handing back what was read so far
FailedReadPartial(r) == r

\* reader.go:160-162  what ReadBinary returns when a page fails
FailedRead(r) == <<>>

\* ------------------------------------------------------------------ Init
InitSession ==
    /\ rpc = "start"
    /\ ctx = "none"
    /\ card = "nil"
    /\ i = 0
    /\ polls = 0
    /\ lastPoll = "none"
    /\ connects = 0
    /\ viaCheck = FALSE
    /\ outcome = "none"
    /\ connErr = FALSE
    /\ transmitted = FALSE
    /\ sw = <<0, 0>>
    /\ pos = 0
    /\ res = <<>>
    /\ reads = <<>>
    /\ allExact = TRUE
    /\ extra = 0

NoInput ==
    [op |-> "none", pin |-> "bad", pinFmt |-> TRUE, newFmt |-> TRUE,
     pintype |-> "OTHER", hashOk |-> TRUE, token |-> "OTHER"]

InitTxVars ==
    /\ txRaw = <<>>
    /\ txErr = FALSE
    /\ txOut = "none"

InitApiVars ==
    /\ stack = <<>>
    /\ in = NoInput
    /\ open = 0
    /\ nsess = 0
    /\ log = <<>>
    /\ result = "none"
    /\ ret = "none"
    /\ cert = "nil"
    /\ data = "nil"

Init ==
    /\ InitSession
    /\ size \in 0..MaxSessionSize
    /\ InitApiVars
    /\ InitTxVars

rbvars == <<size, pos, res, reads, allExact, extra>>

\* ------------------------------------------------------------- NewReader
\* reader.go:18-41
NewReader ==
    /\ rpc = "start"
    /\ \E estOk \in BOOLEAN, listOk \in BOOLEAN, nReaders \in 0..2 :
         IF ~estOk
         THEN /\ rpc' = "noreader"
              /\ outcome' = "nil"
              /\ ctx' = ctx
         ELSE IF ~listOk \/ nReaders = 0
         THEN /\ rpc' = "noreader"
              /\ outcome' = "nil"
              /\ ctx' = "established"
         ELSE /\ rpc' = "fresh"
              /\ outcome' = "reader"
              /\ ctx' = "established"
    /\ UNCHANGED <<card, i, polls, lastPoll, connects, viaCheck, connErr, transmitted, sw, rbvars, avars, tvars>>

\* reader.go:43-45
Finalize ==
    /\ rpc \in {"fresh", "ready", "nocard"}
    /\ ctx' = "released"
    /\ rpc' = "finalized"
    /\ outcome' = "finalized"
    /\ UNCHANGED <<card, i, polls, lastPoll, connects, viaCheck, connErr, transmitted, sw, rbvars, avars, tvars>>

\* ----------------------------------------------------------- WaitForCard
\* reader.go:67-70  the caller enters WaitForCard
WaitForCard ==
    /\ rpc = "fresh"
    /\ rpc' = "wait"
    /\ i' = 0
    /\ polls' = 0
    /\ lastPoll' = "none"
    /\ viaCheck' = FALSE
    /\ outcome' = "none"
    /\ UNCHANGED <<ctx, card, connects, connErr, transmitted, sw, rbvars, avars, tvars>>

\* where WaitForCard returns to, with the card it returns
WaitReturn(c) == IF viaCheck THEN "check_select"
                 ELSE IF c = "nil" THEN "nocard" ELSE "ready"

\* PollAgain with the bound off by one
PollAgainLE(n) == n <= MaxPolls

\* reader.go:71  the loop condition
PollAgain(n) == n < MaxPolls

\* reader.go:71-88  one iteration of the loop, or the exit after it
WaitForCardPoll ==
    /\ rpc = "wait"
    /\ IF PollAgain(i)
       THEN \E poll \in {"err", "present", "absent"}, connOk \in BOOLEAN :
              /\ polls' = polls + 1
              /\ lastPoll' = poll
              /\ CASE poll = "err" ->
                     /\ rpc' = WaitReturn("nil")
                     /\ outcome' = "nil"
                     /\ connErr' = TRUE
                     /\ UNCHANGED <<i, card, connects>>
                [] poll = "present" ->
                     /\ card' = IF connOk THEN "connected" ELSE "nil"
                     /\ connects' = connects + 1
                     /\ connErr' = (connErr \/ ~connOk)
                     /\ rpc' = WaitReturn(card')
                     /\ outcome' = IF connOk THEN "card" ELSE "nil"
                     /\ i' = i
                [] OTHER ->
                     /\ connOk
                     /\ i' = i + 1
                     /\ UNCHANGED <<rpc, outcome, connErr, card, connects>>
       ELSE /\ rpc' = "exit_nocard"
            /\ outcome' = "exit1"
            /\ UNCHANGED <<i, polls, lastPoll, connErr, card, connects>>
    /\ UNCHANGED <<ctx, viaCheck, transmitted, sw, rbvars, avars, tvars>>

\* reader.go:60-65
GetCard ==
    /\ rpc = "fresh"
    /\ \E connOk \in BOOLEAN :
         /\ card' = IF connOk THEN "connected" ELSE "nil"
         /\ connErr' = (connErr \/ ~connOk)
         /\ outcome' = IF connOk THEN "card" ELSE "nil"
         /\ rpc' = IF connOk THEN "ready" ELSE "nocard"
    /\ connects' = connects + 1
    /\ UNCHANGED <<ctx, i, polls, lastPoll, viaCheck, transmitted, sw, rbvars, avars, tvars>>

\* ------------------------------------------------------------- CheckCard
\* reader.go:47-48
CheckCard ==
    /\ rpc = "fresh"
    /\ rpc' = "wait"
    /\ i' = 0
    /\ polls' = 0
    /\ lastPoll' = "none"
    /\ viaCheck' = TRUE
    /\ outcome' = "none"
    /\ UNCHANGED <<ctx, card, connects, connErr, transmitted, sw, rbvars, avars, tvars>>

\* reader.go:49-57  (Tx: reader.go:109-119 dereferences self.card)
CheckCardSelect ==
    /\ rpc = "check_select"
    /\ viaCheck' = FALSE
    /\ IF card = "nil"
       THEN /\ rpc' = "panic"
            /\ outcome' = "panic"
            /\ UNCHANGED <<transmitted, sw>>
       ELSE \E resp \in {"exact", "status", "runt", "error"} :
              LET r == Tx(CardSelect(resp), resp = "error") IN
              /\ transmitted' = TRUE
              /\ sw' = <<r[1], r[2]>>
              /\ IF r[1] = 144 /\ r[2] = 0
                 THEN rpc' = "ready" /\ outcome' = "ok"
                 ELSE rpc' = "exit_wrongcard" /\ outcome' = "exit1"
    /\ UNCHANGED <<ctx, card, i, polls, lastPoll, connects, connErr, rbvars, avars, tvars>>

\* ---------------------------------------------------------------- Select
\* reader.go:91-100  SelectAP / SelectDF
SelectDF ==
    /\ rpc = "ready"
    /\ \E resp \in {"exact", "status", "runt", "error"} :
         LET r == Tx(CardSelect(resp), resp = "error") IN
         /\ sw' = <<r[1], r[2]>>
         /\ outcome' = "sw"
    /\ transmitted' = TRUE
    /\ UNCHANGED <<rpc, ctx, card, i, polls, lastPoll, connects, viaCheck, connErr, rbvars, avars, tvars>>

\* reader.go:102-107
SelectEF ==
    /\ rpc = "ready"
    /\ \E resp \in {"exact", "status", "runt", "error"} :
         LET r == Tx(CardSelect(resp), resp = "error") IN
         /\ sw' = <<r[1], r[2]>>
         /\ outcome' = "sw_ef"
    /\ transmitted' = TRUE
    /\ UNCHANGED <<rpc, ctx, card, i, polls, lastPoll, connects, viaCheck, connErr, rbvars, avars, tvars>>

\* ------------------------------------------------------------ ReadBinary
\* reader.go:144-151  entry; a size of 0 returns the empty result at once
ReadBinary ==
    /\ rpc = "ready"
    /\ rpc' = IF 0 < size THEN "read" ELSE "ready"
    /\ outcome' = IF 0 < size THEN "none" ELSE "data"
    /\ pos' = 0
    /\ res' = <<>>
    /\ reads' = <<>>
    /\ allExact' = TRUE
    /\ extra' = 0
    /\ UNCHANGED <<ctx, card, i, polls, lastPoll, connects, viaCheck, connErr, transmitted, sw, size, avars, tvars>>

\* reader.go:151-166  one pass of the loop body, then the loop test
ReadBinaryPage ==
    /\ rpc = "read"
    /\ \E resp \in Responses :
         LET cmd  == ReadApdu(size, pos)
             r    == Tx(CardRead(cmd, resp), resp = "error")
             page == r[3]
         IN
         /\ resp = "short" => CardLe(cmd) >= 2
         /\ reads' = IF Len(reads) < MaxReads
                      THEN Append(reads, [cmd |-> cmd, got |-> Len(res),
                                          ok |-> (r[1] = 144 /\ r[2] = 0)])
                      ELSE reads
         /\ extra' = IF Len(reads) < MaxReads THEN extra ELSE 1 - extra
         /\ allExact' = (allExact /\ resp = "exact")
         /\ IF r[1] # 144 \/ r[2] # 0
            THEN /\ res' = FailedRead(res)
                 /\ rpc' = "ready"
                 /\ outcome' = "nil"
                 /\ pos' = pos
            ELSE /\ res' = res \o page
                 /\ pos' = (pos + Len(page)) % Uint16
                 /\ rpc' = IF pos' < size THEN "read" ELSE "ready"
                 /\ outcome' = IF pos' < size THEN "none" ELSE "data"
    /\ transmitted' = TRUE
    /\ UNCHANGED <<ctx, card, i, polls, lastPoll, connects, viaCheck, connErr, sw, size, avars, tvars>>

Next ==
    \/ NewReader
    \/ Finalize
    \/ WaitForCard
    \/ WaitForCardPoll
    \/ GetCard
    \/ CheckCard
    \/ CheckCardSelect
    \/ SelectDF
    \/ SelectEF
    \/ ReadBinary
    \/ ReadBinaryPage

Spec == Init /\ [][Next]_vars

\* reader.go:151-166  the loop of ReadBinary keeps running until it returns
SpecFair == Spec /\ WF_vars(ReadBinaryPage)

\* A Reader that CheckCard has connected, about to read a binary.
InitRead ==
    /\ rpc = "ready"
    /\ ctx = "established"
    /\ card = "connected"
    /\ i = 0
    /\ polls = 1
    /\ lastPoll = "present"
    /\ connects = 1
    /\ viaCheck = FALSE
    /\ outcome = "ok"
    /\ connErr = FALSE
    /\ transmitted = TRUE
    /\ sw = <<144, 0>>
    /\ size \in 0..MaxSize
    /\ pos = 0
    /\ res = <<>>
    /\ reads = <<>>
    /\ allExact = TRUE
    /\ extra = 0
    /\ InitApiVars
    /\ InitTxVars

NextRead ==
    \/ ReadBinary
    \/ ReadBinaryPage

SpecRead == InitRead /\ [][NextRead]_vars

\* --------------------------------------------------------- Tx on its own
\* Bytes a response is made of: zero, a data byte, SW1 of success, SW1 of
\* a failure.
SampleBytes == {0, 1, 106, 144}

RECURSIVE RawOfLen(_)
\* the responses of n bytes
RawOfLen(n) ==
    IF n = 0 THEN {<<>>}
    ELSE {Append(r, b) : r \in RawOfLen(n - 1), b \in SampleBytes}

\* the responses card.Transmit can return
Raws == UNION {RawOfLen(n) : n \in 0..MaxRaw}

\* A connected Reader about to call card.Transmit in Tx.
InitTx ==
    /\ InitSession
    /\ size = 0
    /\ InitApiVars
    /\ txRaw \in Raws
    /\ txErr \in BOOLEAN
    /\ txOut = "none"

\* reader.go:115-141  Tx from the return of card.Transmit on
TxReturn ==
    /\ txOut = "none"
    /\ txOut' = Tx(txRaw, txErr)
    /\ UNCHANGED <<txRaw, txErr, rvars, avars>>

NextTx == TxReturn

SpecTx == InitTx /\ [][NextTx]_vars

\* ======================================================================
\* src/libmyna/api.go: the high-level API
\* ======================================================================
\* One line of a workflow: what is done (k), on what (a), what the code
\* does when it fails (e), and the condition under which the line runs (w).
\*   e = "err"     return the callee's error
\*   e = "ignore"  the result is not looked at
\*   e = "nilcert" ReadCertificate returns (nil, err)
\*   e = other     return that error, built by the workflow itself
S(k, a, e, w) == [k |-> k, a |-> a, e |-> e, w |-> w]

\* api.go:23-32 (and the same lines of every workflow): NewReader, the
\* deferred Finalize, SetDebug, Connect
OpenSession ==
    << S("newreader", "", "err", "always"),
       S("connect", "", "err", "always") >>

\* CheckCardProg not looking at the selection of the token file
CheckCardProgUnchecked ==
    OpenSession \o
    << S("select_ap", "JPKI", "NotMyNumberCard", "always"),
       S("select_ef", "00 06", "ignore", "always"),
       S("read", "token", "ignore", "always"),
       S("ret_token", "", "", "always") >>

\* api.go:22-52
CheckCardProg ==
    OpenSession \o
    << S("select_ap", "JPKI", "NotMyNumberCard", "always"),
       S("select_ef", "00 06", "NoTokenInfo", "always"),
       S("read", "token", "ignore", "always"),
       S("ret_token", "", "", "always") >>

\* GetMyNumberProg going on after a failed Verify
GetMyNumberProgUnchecked ==
    OpenSession \o
    << S("select_ap", "HELPER", "ignore", "always"),
       S("select_ef", "00 11", "ignore", "always"),
       S("verify", "", "ignore", "always"),
       S("select_ef", "00 01", "ignore", "always"),
       S("read", "16", "ignore", "always"),
       S("slice", "", "", "always"),
       S("ret_ok", "", "", "always") >>

\* api.go:55-77
GetMyNumberProg ==
    OpenSession \o
    << S("select_ap", "HELPER", "ignore", "always"),
       S("select_ef", "00 11", "ignore", "always"),
       S("verify", "", "err", "always"),
       S("select_ef", "00 01", "ignore", "always"),
       S("read", "16", "ignore", "always"),
       S("slice", "", "", "always"),
       S("ret_ok", "", "", "always") >>

\* api.go:80-130
GetAttrInfoProg ==
    OpenSession \o
    << S("select_ap", "HELPER", "ignore", "always"),
       S("select_ef", "00 11", "ignore", "always"),
       S("verify", "", "err", "always"),
       S("select_ef", "00 02", "ignore", "always"),
       S("read", "7", "ReadFailed", "always"),
       S("local", "parse", "err", "always"),
       S("read", "size", "ignore", "always"),
       S("slice", "", "", "always"),
       S("ret_ok", "", "", "always") >>

\* Change4DigitPinProg validating the new PIN only when it is needed
Change4DigitPinProgLate ==
    << S("local", "pinFmt", "err", "always") >> \o
    OpenSession \o
    << S("select_ap", "HELPER", "ignore", "CARD_INPUT_HELPER"),
       S("select_ef", "00 11", "ignore", "CARD_INPUT_HELPER"),
       S("select_ap", "JPKI", "ignore", "JPKI_AUTH"),
       S("select_ef", "00 18", "ignore", "JPKI_AUTH"),
       S("verify", "", "err", "always"),
       S("local", "newFmt", "err", "always"),
       S("change", "", "ChangePinFailed", "always"),
       S("ret_ok", "", "", "always") >>

\* api.go:140-182
Change4DigitPinProg ==
    << S("local", "pinFmt", "err", "always"),
       S("local", "newFmt", "err", "always") >> \o
    OpenSession \o
    << S("select_ap", "HELPER", "ignore", "CARD_INPUT_HELPER"),
       S("select_ef", "00 11", "ignore", "CARD_INPUT_HELPER"),
       S("select_ap", "JPKI", "ignore", "JPKI_AUTH"),
       S("select_ef", "00 18", "ignore", "JPKI_AUTH"),
       S("verify", "", "err", "always"),
       S("change", "", "ChangePinFailed", "always"),
       S("ret_ok", "", "", "always") >>

\* ChangeJPKISignPinProg changing the password whatever Verify said
ChangeJPKISignPinProgUnverified ==
    << S("local", "pinFmt", "err", "always"),
       S("local", "newFmt", "err", "always") >> \o
    OpenSession \o
    << S("select_ap", "JPKI", "ignore", "always"),
       S("select_ef", "00 1B", "ignore", "always"),
       S("verify", "", "ignore", "always"),
       S("change", "", "ChangePinFailed", "always"),
       S("ret_ok", "", "", "always") >>

\* api.go:184-221
ChangeJPKISignPinProg ==
    << S("local", "pinFmt", "err", "always"),
       S("local", "newFmt", "err", "always") >> \o
    OpenSession \o
    << S("select_ap", "JPKI", "ignore", "always"),
       S("select_ef", "00 1B", "ignore", "always"),
       S("verify", "", "err", "always"),
       S("change", "", "ChangePinFailed", "always"),
       S("ret_ok", "", "", "always") >>

\* jpkiAP.VerifySignPin, called at api.go:241
VerifySignPin ==
    << S("select_ef", "00 1B", "err", "haspin"),
       S("verify", "", "err", "haspin") >>

\* jpkiAP.ReadCertificate, called at api.go:246
ReadCertificate ==
    << S("select_ef", "cert", "nilcert", "always"),
       S("readcert", "cert", "nilcert", "always") >>

\* GetJPKICertProg reading the certificate whatever VerifySignPin said
GetJPKICertProgUnchecked ==
    OpenSession \o
    << S("select_ap", "JPKI", "err", "always"),
       S("select_ef", "00 1B", "ignore", "haspin"),
       S("verify", "", "ignore", "haspin") >> \o
    ReadCertificate \o
    << S("ret_ok", "", "", "always") >>

\* api.go:223-248
GetJPKICertProg ==
    OpenSession \o
    << S("select_ap", "JPKI", "err", "always") >> \o
    VerifySignPin \o
    ReadCertificate \o
    << S("ret_ok", "", "", "always") >>

\* api.go:352-377
SignProg ==
    OpenSession \o
    << S("select_ap", "JPKI", "ignore", "always"),
       S("select_ef", "00 1B", "ignore", "always"),
       S("verify", "", "err", "always"),
       S("select_ef", "00 1A", "ignore", "always"),
       S("signature", "", "err", "always"),
       S("ret_ok", "", "", "always") >>

\* api.go:399-435
CmsSignJPKISignProg ==
    << S("local", "hashOk", "err", "always"),
       S("local", "file", "err", "always"),
       S("call", "GetJPKICert", "err", "always"),
       S("deref", "", "", "always"),
       S("call", "Sign", "err", "always"),
       S("local", "output", "err", "always"),
       S("ret_ok", "", "", "always") >>

Ops == {"CheckCard", "GetMyNumber", "GetAttrInfo", "Change4DigitPin",
        "ChangeJPKISignPin", "GetJPKICert", "Sign", "CmsSignJPKISign"}

Table(op) ==
    CASE op = "CheckCard"         -> CheckCardProg
      [] op = "GetMyNumber"       -> GetMyNumberProg
      [] op = "GetAttrInfo"       -> GetAttrInfoProg
      [] op = "Change4DigitPin"   -> Change4DigitPinProg
      [] op = "ChangeJPKISignPin" -> ChangeJPKISignPinProg
      [] op = "GetJPKICert"       -> GetJPKICertProg
      [] op = "Sign"              -> SignProg
      [] OTHER                    -> CmsSignJPKISignProg

\* api.go:163-170 (switch pintype) and api.go:240 (pin != "")
Runs(w, inp) ==
    CASE w = "always" -> TRUE
      [] w = "haspin" -> inp.pin # "empty"
      [] OTHER        -> inp.pintype = w

\* The lines of op that run for the arguments inp.
Prog(op, inp) == SelectSeq(Table(op), LAMBDA st : Runs(st.w, inp))

Top == stack[Len(stack)]

Cur == Prog(Top.op, in)[Top.ix]

Running == stack # <<>> /\ Top.st = "run"

\* Deferred with Finalize called on the success path only
DeferredOnSuccess(fr, r) == fr.rd /\ r = "ok"

\* Deferred with the certificate session left open
DeferredNotForCert(fr, r) == fr.rd /\ fr.op # "GetJPKICert"

\* api.go:27 etc.: defer reader.Finalize(), run when the frame is left
\* with r
Deferred(fr, r) == fr.rd

\* Reader.Finalize of libmyna: the context of the session is released
ReaderFinalize(n) == n - 1

\* The error values the callees report.
ErrorOf(k) ==
    CASE k = "newreader" -> "ReaderUnavailable"
      [] k = "select_ap" -> "SelectFailed"
      [] k = "select_ef" -> "SelectFailed"
      [] k = "verify"    -> "PinVerifyFailed"
      [] k = "signature" -> "SigningFailed"
      [] k = "readcert"  -> "ReadFailed"
      [] k = "read"      -> "ReadFailed"
      [] OTHER           -> "Failed"

\* The frame goes on with its next line.
Proceed ==
    /\ stack' = [stack EXCEPT ![Len(stack)].ix = @ + 1]
    /\ UNCHANGED <<open, result, ret>>

\* The running frame returns r: its deferred Finalize runs, and r goes to
\* the caller of the public call or to the frame that called.
Leave(r) ==
    /\ open' = IF Deferred(Top, r) THEN ReaderFinalize(open) ELSE open
    /\ stack' = SubSeq(stack, 1, Len(stack) - 1)
    /\ IF Len(stack) = 1
       THEN result' = r /\ ret' = ret
       ELSE result' = result /\ ret' = r

\* A run-time panic: the deferred calls of every frame run, the process dies.
Crash ==
    /\ open' = open - Cardinality({k \in 1..Len(stack) : Deferred(stack[k], "panic")})
    /\ stack' = <<>>
    /\ result' = "panic"
    /\ ret' = ret

\* What a line does once its callee reported okv (and err when not okv).
Continue(okv, err) ==
    IF okv \/ Cur.e = "ignore" THEN Proceed
    ELSE IF Cur.e = "nilcert"
    THEN /\ stack' = [stack EXCEPT ![Len(stack)].ix = Len(Prog(Top.op, in))]
         /\ UNCHANGED <<open, result, ret>>
    ELSE Leave(IF Cur.e = "err" THEN err ELSE Cur.e)

Frame(op) == [op |-> op, ix |-> 1, rd |-> FALSE, st |-> "run"]

Pins == {"good", "bad", "empty"}

PinTypes == {"CARD_INPUT_HELPER", "JPKI_AUTH", "OTHER"}

Tokens == {"JPKIAPICCTOKEN2", "JPKIAPICCTOKEN", "OTHER"}

\* The arguments a public call of op can be given.
Inputs(op) ==
    {inp \in [op : {op}, pin : Pins, pinFmt : BOOLEAN, newFmt : BOOLEAN,
              pintype : PinTypes, hashOk : BOOLEAN, token : Tokens] :
        /\ (inp.pin = "good" => inp.pinFmt)
        /\ (op \notin {"Change4DigitPin", "ChangeJPKISignPin"}
              => inp.pinFmt /\ inp.newFmt)
        /\ (op # "Change4DigitPin" => inp.pintype = "OTHER")
        /\ (op # "CmsSignJPKISign" => inp.hashOk)
        /\ (op # "CheckCard" => inp.token = "OTHER")
        /\ (op = "CheckCard" => inp.pin = "bad")}

Append1(c, okv) ==
    Append(log, [c |-> c, a |-> Cur.a, ok |-> okv, s |-> nsess])

\* A public operation is called.
ApiCall ==
    /\ stack = <<>>
    /\ result # "panic"
    /\ \E op \in Ops :
         /\ stack' = <<Frame(op)>>
         /\ in' \in Inputs(op)
    /\ nsess' = 0
    /\ log' = <<>>
    /\ result' = "none"
    /\ ret' = "none"
    /\ cert' = "nil"
    /\ data' = "nil"
    /\ UNCHANGED <<open, rvars, tvars>>

\* Validate4DigitPin / ValidateJPKISignPassword / GetDigestOID /
\* ioutil.ReadFile / parser.Parse / Finish and writeCms: no card involved
ApiLocal ==
    /\ Running
    /\ Cur.k = "local"
    /\ \E okv \in BOOLEAN :
         /\ Cur.a = "pinFmt" => okv = in.pinFmt
         /\ Cur.a = "newFmt" => okv = in.newFmt
         /\ Cur.a = "hashOk" => okv = in.hashOk
         /\ Continue(okv, CASE Cur.a \in {"pinFmt", "newFmt"} -> "PinFormatInvalid"
                            [] Cur.a = "hashOk" -> "UnsupportedDigestAlgorithm"
                            [] Cur.a = "parse"  -> "ParseFailed"
                            [] OTHER            -> "IOFailed")
    /\ UNCHANGED <<in, nsess, log, cert, data, rvars, tvars>>

\* NewReader() and defer reader.Finalize()
ApiNewReader ==
    /\ Running
    /\ Cur.k = "newreader"
    /\ \E okv \in BOOLEAN :
         IF okv
         THEN /\ stack' = [stack EXCEPT ![Len(stack)].ix = @ + 1,
                                        ![Len(stack)].rd = TRUE]
              /\ open' = open + 1
              /\ nsess' = nsess + 1
              /\ UNCHANGED <<result, ret>>
         ELSE /\ Continue(FALSE, ErrorOf("newreader"))
              /\ nsess' = nsess
    /\ UNCHANGED <<in, log, cert, data, rvars, tvars>>

\* reader.Connect()
ApiConnect ==
    /\ Running
    /\ Cur.k = "connect"
    /\ \E r \in {"ok", "NoCardPresent", "ConnectFailed"} :
         Continue(r = "ok", r)
    /\ UNCHANGED <<in, nsess, log, cert, data, rvars, tvars>>

\* SelectJPKIAP / SelectCardInputHelperAP / SelectEF
ApiSelect ==
    /\ Running
    /\ Cur.k \in {"select_ap", "select_ef"}
    /\ \E okv \in BOOLEAN :
         /\ log' = Append1(Cur.k, okv)
         /\ Continue(okv, ErrorOf(Cur.k))
    /\ UNCHANGED <<in, nsess, cert, data, rvars, tvars>>

\* reader.Verify(pin)
ApiVerify ==
    /\ Running
    /\ Cur.k = "verify"
    /\ \E okv \in BOOLEAN :
         /\ okv => in.pin = "good"
         /\ log' = Append1("verify", okv)
         /\ Continue(okv, ErrorOf("verify"))
    /\ UNCHANGED <<in, nsess, cert, data, rvars, tvars>>

\* reader.ReadBinary / jpkiAP.GetToken / the read of ReadCertificate
ApiRead ==
    /\ Running
    /\ Cur.k \in {"read", "readcert"}
    /\ \E okv \in BOOLEAN :
         /\ log' = Append1("read", okv)
         /\ data' = IF okv THEN "full" ELSE "nil"
         /\ cert' = IF Cur.k = "readcert" /\ okv THEN "cert" ELSE cert
         /\ Continue(okv, ErrorOf(Cur.k))
    /\ UNCHANGED <<in, nsess, rvars, tvars>>

\* reader.ChangePin(newpin)
ApiChangePin ==
    /\ Running
    /\ Cur.k = "change"
    /\ \E okv \in BOOLEAN :
         /\ log' = Append1("change", okv)
         /\ Continue(okv, ErrorOf("change"))
    /\ UNCHANGED <<in, nsess, cert, data, rvars, tvars>>

\* reader.Signature(digestInfo)
ApiSignature ==
    /\ Running
    /\ Cur.k = "signature"
    /\ \E okv \in BOOLEAN :
         /\ log' = Append1("signature", okv)
         /\ Continue(okv, ErrorOf("signature"))
    /\ UNCHANGED <<in, nsess, cert, data, rvars, tvars>>

\* api.go:75 data[1:], api.go:118 data[offset:]: a nil slice panics
ApiSlice ==
    /\ Running
    /\ Cur.k = "slice"
    /\ IF data = "nil" THEN Crash ELSE Proceed
    /\ UNCHANGED <<in, nsess, log, cert, data, rvars, tvars>>

\* api.go:416 cert.PublicKey: a nil certificate panics
ApiDeref ==
    /\ Running
    /\ Cur.k = "deref"
    /\ IF cert = "nil" THEN Crash ELSE Proceed
    /\ UNCHANGED <<in, nsess, log, cert, data, rvars, tvars>>

\* api.go:411 GetJPKISignCert(pin), api.go:420 AddSigner calling Sign
ApiNested ==
    /\ Running
    /\ Cur.k = "call"
    /\ stack' = [stack EXCEPT ![Len(stack)].st = "called"] \o <<Frame(Cur.a)>>
    /\ UNCHANGED <<in, open, nsess, log, result, ret, cert, data, rvars, tvars>>

\* api.go:412-414, api.go:421-423: the nested call has returned
ApiAfterNested ==
    /\ stack # <<>>
    /\ Top.st = "called"
    /\ IF ret = "ok"
       THEN /\ stack' = [stack EXCEPT ![Len(stack)].st = "run",
                                      ![Len(stack)].ix = @ + 1]
            /\ UNCHANGED <<open, result>>
       ELSE /\ open' = IF Deferred(Top, ret) THEN ReaderFinalize(open) ELSE open
            /\ stack' = SubSeq(stack, 1, Len(stack) - 1)
            /\ result' = ret
    /\ ret' = "none"
    /\ UNCHANGED <<in, nsess, log, cert, data, rvars, tvars>>

\* the return at the end of a workflow
ApiReturn ==
    /\ Running
    /\ Cur.k \in {"ret_ok", "ret_token"}
    /\ Leave(IF Cur.k = "ret_ok" THEN "ok"
             ELSE LET token == IF data = "full" THEN in.token ELSE "" IN
                  IF token = "JPKIAPICCTOKEN2" THEN "ok"
                  ELSE IF token = "JPKIAPICCTOKEN" THEN "LegacyCard"
                  ELSE "UnknownToken")
    /\ UNCHANGED <<in, nsess, log, cert, data, rvars, tvars>>

InitApi ==
    /\ InitSession
    /\ size = 0
    /\ InitApiVars
    /\ InitTxVars

NextApi ==
    \/ ApiCall
    \/ ApiLocal
    \/ ApiNewReader
    \/ ApiConnect
    \/ ApiSelect
    \/ ApiVerify
    \/ ApiRead
    \/ ApiChangePin
    \/ ApiSignature
    \/ ApiSlice
    \/ ApiDeref
    \/ ApiNested
    \/ ApiAfterNested
    \/ ApiReturn

SpecApi == InitApi /\ [][NextApi]_vars

\* ======================================================================
\* Properties
\* ======================================================================
Done == stack = <<>> /\ result # "none"

\* C1: in every workflow that verifies a PIN, a failed verification is the
\* last command transmitted in the call, and the call returns the
\* verification failure (PinVerifyFailed, which is not SelectFailed).
C1_VerifyFailureStops ==
    \A k \in 1..Len(log) :
        (log[k].c = "verify" /\ ~log[k].ok) =>
            /\ k = Len(log)
            /\ Done => (result = "PinVerifyFailed" /\ result # "SelectFailed")

C1_Witness ==
    /\ Done
    /\ Len(log) >= 3
    /\ log[Len(log)].c = "verify"
    /\ ~log[Len(log)].ok
    /\ result = "PinVerifyFailed"

\* C2: every context a workflow established is released by the time the
\* workflow returns, on every return path: the open contexts are exactly
\* those of the frames still running, none once the public call is over.
C2_SessionTornDown ==
    open = Cardinality({k \in 1..Len(stack) : stack[k].rd})

C2_Witness ==
    /\ Done
    /\ nsess >= 1
    /\ result = "ChangePinFailed"
    /\ open = 0

\* C3: in reader.go an established context is released on every exit
\* path: once the process run is over the context is not left established.
C3_ContextReleased ==
    rpc \in {"noreader", "exit_nocard", "exit_wrongcard", "panic", "finalized"}
        => ctx # "established"

\* C4: at most one session is open at any point; in cms-sign the session
\* that read the certificate is closed before the signer opens its own.
C4_OneSession == open <= 1

C4_Witness ==
    /\ Len(stack) = 2
    /\ stack[1].op = "CmsSignJPKISign"
    /\ stack[2].op = "Sign"
    /\ stack[2].rd
    /\ nsess = 2
    /\ open = 1

\* C5: a command is transmitted only on a connected card, and once a
\* status poll or an exclusive connect has errored the operation fails
\* with that error and hands no command to the card.
C5_NoCommandBeforeConnected ==
    /\ transmitted => card = "connected"
    /\ connErr => (outcome \in {"nil", "finalized"} /\ ~transmitted)

\* C6: WaitForCard polls at most 3 times per call, connects only after a
\* poll that reported the card present, and after 3 polls that reported it
\* absent the process has exited with no connect and no command.
C6_ThreePolls ==
    /\ polls <= 3
    /\ (polls > 0 /\ connects > 0) => lastPoll = "present"
    /\ rpc = "exit_nocard" =>
          /\ polls = 3
          /\ lastPoll = "absent"
          /\ connects = 0
          /\ card = "nil"
          /\ ~transmitted

C6_Witness == rpc = "exit_nocard" /\ outcome = "exit1"

\* ceil(n / d)
Ceil(n, d) == (n + d - 1) \div d

\* ReadBinary has returned the data of a read answered in full throughout.
ReadDone == rpc = "ready" /\ outcome = "data" /\ allExact

\* C7 as stated: ReadBinary(size) issues ceil(size / 255) READ BINARY
\* commands, each requesting at most 255 bytes.
C7_PagesOf255 ==
    ReadDone =>
        /\ Len(reads) = Ceil(size, 255)
        /\ \A k \in 1..Len(reads) : CardLe(reads[k].cmd) <= 255

\* C7 amended: ReadBinary(size) issues ceil(size / 256) READ BINARY
\* commands, each requesting at most 256 bytes.
C7_PagesOf256 ==
    ReadDone =>
        /\ Len(reads) = Ceil(size, 256)
        /\ \A k \in 1..Len(reads) : CardLe(reads[k].cmd) <= 256

C7_Witness == ReadDone /\ size = 256 /\ Len(reads) = 1

RECURSIVE Requested(_, _)
\* the bytes requested by the first n commands of the log
Requested(rs, n) ==
    IF n = 0 THEN 0 ELSE Requested(rs, n - 1) + CardLe(rs[n].cmd)

\* C8: when every page is answered in full, the offsets of the successive
\* commands strictly increase, each is the count of bytes accumulated so
\* far as 16-bit big-endian P1,P2, and the requested lengths sum to size,
\* the size of the data returned.
C8_Offsets ==
    allExact =>
        /\ \A k \in 1..Len(reads) :
              /\ reads[k].got = Requested(reads, k - 1)
              /\ reads[k].cmd[3] = (reads[k].got \div 256) % 256
              /\ reads[k].cmd[4] = reads[k].got % 256
              /\ CardOffset(reads[k].cmd) = reads[k].got
              /\ k > 1 => CardOffset(reads[k].cmd) > CardOffset(reads[k - 1].cmd)
        /\ ReadDone =>
              /\ Requested(reads, Len(reads)) = size
              /\ Len(res) = size
              /\ res = FileBytes(0, size)

C8_Witness == ReadDone /\ Len(reads) = 3 /\ CardOffset(reads[3].cmd) = 512

\* C9: a command issued when exactly 256 bytes remain carries the length
\* byte 0, one issued when r <= 255 bytes remain carries the length byte r.
C9_LengthByte ==
    \A k \in 1..Len(reads) :
        LET r == size - reads[k].got IN
        /\ r = 256 => reads[k].cmd[5] = 0
        /\ r <= 255 => reads[k].cmd[5] = r

C9_Witness ==
    /\ Len(reads) = 3
    /\ size - reads[2].got = 256
    /\ reads[2].cmd[5] = 0
    /\ size - reads[3].got = 1
    /\ reads[3].cmd[5] = 1

\* C10: a page whose status word is not 0x9000 is the last one issued, and
\* the read returns no data, whatever the earlier pages delivered.
C10_FailedPageAborts ==
    \A k \in 1..Len(reads) :
        ~reads[k].ok =>
            /\ k = Len(reads)
            /\ rpc = "ready"
            /\ outcome = "nil"
            /\ res = <<>>

C10_Witness ==
    /\ Len(reads) = 3
    /\ reads[1].ok /\ reads[2].ok /\ ~reads[3].ok
    /\ outcome = "nil"

\* the number of commands c transmitted since the public call began
Count(c) == Cardinality({k \in 1..Len(log) : log[k].c = c})

\* C11: a selection whose status is not 0x9000 is the last command the
\* workflow transmits, and the workflow returns a selection failure.
C11_SelectionChecked ==
    \A k \in 1..Len(log) :
        (log[k].c \in {"select_ap", "select_ef"} /\ ~log[k].ok) =>
            /\ k = Len(log)
            /\ Done => result \in {"SelectFailed", "NotMyNumberCard", "NoTokenInfo"}

\* C12: when the old or the new PIN of a change call fails its format
\* check, or the digest name of cms-sign is not supported, no reader
\* context is established and no command is transmitted, and the call
\* returns that error.
C12_ErrorsBeforeCardIO ==
    /\ (~in.pinFmt \/ ~in.newFmt \/ ~in.hashOk) =>
          /\ nsess = 0
          /\ open = 0
          /\ log = <<>>
          /\ Done => result \in {"PinFormatInvalid", "UnsupportedDigestAlgorithm"}
    /\ (Done /\ result \in {"PinFormatInvalid", "UnsupportedDigestAlgorithm"}) =>
          (nsess = 0 /\ log = <<>>)

C12_Witness ==
    /\ Done
    /\ in.op = "Change4DigitPin"
    /\ in.pin = "good"
    /\ ~in.newFmt
    /\ result = "PinFormatInvalid"
    /\ nsess = 0

\* Tx has returned.
TxDone == txOut # "none"

\* C13: after a transmission error, or a response of fewer than 2 bytes,
\* what Tx returns differs from what it returns for every response that
\* carries a status word.
C13_TransportErrorSurfaced ==
    (TxDone /\ (txErr \/ Len(txRaw) < 2)) =>
        \A raw \in Raws : Len(raw) >= 2 => Tx(raw, FALSE) # txOut

\* C14: Tx decodes a response by its length: 2 bytes are SW1,SW2 with no
\* data; n > 2 bytes are n-2 bytes of data, in order, then SW1,SW2; fewer
\* than 2 bytes give the status word 0,0 and no data.
C14_DecodeByLength ==
    (TxDone /\ ~txErr) =>
        LET n == Len(txRaw) IN
        /\ n = 2 => txOut = <<txRaw[1], txRaw[2], <<>>>>
        /\ n > 2 =>
              /\ txOut[1] = txRaw[n - 1]
              /\ txOut[2] = txRaw[n]
              /\ Len(txOut[3]) = n - 2
              /\ \A k \in 1..(n - 2) : txOut[3][k] = txRaw[k]
        /\ n < 2 => txOut = <<0, 0, <<>>>>

C14_Witness ==
    /\ TxDone
    /\ ~txErr
    /\ txRaw = <<1, 106, 144, 0>>
    /\ txOut = <<144, 0, <<1, 106>>>>

\* the identity application and the token file were selected successfully
TokenFileSelected ==
    /\ Len(log) >= 2
    /\ log[1].c = "select_ap" /\ log[1].a = "JPKI" /\ log[1].ok
    /\ log[2].c = "select_ef" /\ log[2].a = "00 06" /\ log[2].ok

\* the token string read from the card, empty after a failed read
TokenRead ==
    IF Len(log) >= 3 /\ log[3].c = "read" /\ log[3].ok THEN in.token ELSE ""

\* C15: check-card-type succeeds exactly when both selections succeeded
\* and the token read is the expected one; after both selections the
\* legacy token gives the legacy-card error and any other token, the
\* empty one included, the unrecognized-token error.
C15_CheckCardOutcome ==
    (Done /\ in.op = "CheckCard") =>
        /\ result = "ok" <=> (TokenFileSelected /\ TokenRead = "JPKIAPICCTOKEN2")
        /\ (TokenFileSelected /\ TokenRead = "JPKIAPICCTOKEN") => result = "LegacyCard"
        /\ (TokenFileSelected /\ TokenRead \notin {"JPKIAPICCTOKEN2", "JPKIAPICCTOKEN"})
              => result = "UnknownToken"
        /\ result = "LegacyCard" => (TokenFileSelected /\ TokenRead = "JPKIAPICCTOKEN")
        /\ result = "UnknownToken" =>
              (TokenFileSelected /\ TokenRead \notin {"JPKIAPICCTOKEN2", "JPKIAPICCTOKEN"})

C15_Witness ==
    /\ Done
    /\ in.op = "CheckCard"
    /\ TokenFileSelected
    /\ TokenRead = "JPKIAPICCTOKEN"
    /\ result = "LegacyCard"

\* C16: in a change call the change command is transmitted at most once,
\* right after a successful VERIFY of the same session, VERIFY itself is
\* transmitted at most once, and a failed change is the last command of
\* the call, which then returns the change failure.
C16_ChangeOnceAfterVerify ==
    in.op \in {"Change4DigitPin", "ChangeJPKISignPin"} =>
        /\ Count("change") <= 1
        /\ Count("verify") <= 1
        /\ \A k \in 1..Len(log) :
              log[k].c = "change" =>
                  /\ k > 1
                  /\ log[k - 1].c = "verify"
                  /\ log[k - 1].ok
                  /\ log[k - 1].s = log[k].s
                  /\ in.pin = "good"
                  /\ ~log[k].ok => (k = Len(log) /\ (Done => result = "ChangePinFailed"))

C16_Witness ==
    /\ Done
    /\ in.op = "ChangeJPKISignPin"
    /\ Count("change") = 1
    /\ ~log[Len(log)].ok
    /\ log[Len(log)].c = "change"
    /\ result = "ChangePinFailed"

\* C17: when a binary read of read-personal-number or read-four-attributes
\* fails, or the certificate cannot be read in read-certificate, the
\* operation returns an error: it neither reports success nor panics, and
\* a successful read-certificate carries a certificate.
C17_ReadFailureReported ==
    (Done /\ in.op \in {"GetMyNumber", "GetAttrInfo", "GetJPKICert"}) =>
        /\ (\E k \in 1..Len(log) : log[k].c = "read" /\ ~log[k].ok)
              => result \notin {"ok", "panic"}
        /\ (in.op = "GetJPKICert" /\ result = "ok") => cert = "cert"
        /\ result # "panic"

\* C18: in the 4-digit change-PIN operation VERIFY is transmitted only
\* after the card-input-helper application with its PIN file, or the
\* identity application with its authentication PIN file, was selected in
\* the same session; with any other PIN type neither VERIFY nor the change
\* command is transmitted.
C18_VerifyAfterPinFileSelected ==
    in.op = "Change4DigitPin" =>
        /\ \A k \in 1..Len(log) :
              log[k].c = "verify" =>
                  /\ k = 3
                  /\ log[1].c = "select_ap" /\ log[1].ok /\ log[1].s = log[3].s
                  /\ log[2].c = "select_ef" /\ log[2].ok /\ log[2].s = log[3].s
                  /\ \/ log[1].a = "HELPER" /\ log[2].a = "00 11"
                     \/ log[1].a = "JPKI" /\ log[2].a = "00 18"
        /\ in.pintype \notin {"CARD_INPUT_HELPER", "JPKI_AUTH"} =>
              (Count("verify") = 0 /\ Count("change") = 0)

\* C19: ReadBinary terminates whatever the card and the transport answer:
\* a read that has begun returns, with the data or with a failure.
C19_ReadTerminates == (rpc = "read") ~> (rpc = "ready")

\* C20 as stated: a cms-sign call with a wrong signing PIN transmits
\* exactly one VERIFY, opens no signer session and sends no signature
\* command; a call with the correct PIN transmits exactly two VERIFY
\* commands, one in each of its two sessions.
C20_VerifyCount ==
    (Done /\ in.op = "CmsSignJPKISign") =>
        /\ in.pin # "good" =>
              (Count("verify") = 1 /\ nsess <= 1 /\ Count("signature") = 0)
        /\ in.pin = "good" =>
              /\ Count("verify") = 2
              /\ \E j, k \in 1..Len(log) :
                    /\ log[j].c = "verify" /\ log[j].s = 1
                    /\ log[k].c = "verify" /\ log[k].s = 2

\* C20 amended: a cms-sign call with a non-empty wrong signing PIN
\* transmits at most one VERIFY, exactly one when the call ends with the
\* verification failure, and it opens no signer session and sends no
\* signature command; a call that succeeds was made with the correct PIN
\* and has transmitted exactly two VERIFY commands, one in each of its two
\* sessions.
C20_VerifyCountAmended ==
    in.op = "CmsSignJPKISign" =>
        /\ in.pin = "bad" =>
              /\ Count("verify") <= 1
              /\ nsess <= 1
              /\ Count("signature") = 0
              /\ (Done /\ result = "PinVerifyFailed") => Count("verify") = 1
              /\ \A k \in 1..Len(log) : log[k].c = "verify" => (~log[k].ok /\ k = Len(log))
        /\ (Done /\ result = "ok") =>
              /\ in.pin = "good"
              /\ Count("verify") = 2
              /\ nsess = 2
              /\ \E j, k \in 1..Len(log) :
                    /\ log[j].c = "verify" /\ log[j].s = 1 /\ log[j].ok
                    /\ log[k].c = "verify" /\ log[k].s = 2 /\ log[k].ok

C20_Witness ==
    /\ Done
    /\ in.op = "CmsSignJPKISign"
    /\ in.pin = "bad"
    /\ result = "PinVerifyFailed"
    /\ Count("verify") = 1
    /\ nsess = 1

====
